---------------------------- MODULE Spec2Model ----------------------------
(***************************************************************************)
(* The create_user management command                                      *)
(* (src/users/management/commands/create_user.py).                         *)
(*                                                                         *)
(*     def handle(self, *args, **options):                                 *)
(*         User.objects.get_or_create(email="test@test.com")               *)
(*         self.stdout.write(self.style.SUCCESS("User added"))             *)
(*                                                                         *)
(* User is django.contrib.auth.models.User (line 2): its table has an      *)
(* auto-increment primary key id, a UNIQUE username, and an email column   *)
(* that carries no uniqueness constraint.  get_or_create(email=E) is       *)
(*                                                                         *)
(*     try:    return self.get(email=E), False                             *)
(*     except DoesNotExist:                                                *)
(*         try:    return self.create(email=E), True  # atomic INSERT      *)
(*         except IntegrityError:                                          *)
(*             try:    return self.get(email=E), False                     *)
(*             except DoesNotExist: pass                                   *)
(*             raise                                                       *)
(*                                                                         *)
(* and get() raises MultipleObjectsReturned when several rows match.  Each *)
(* SELECT and each INSERT is one atomic step of the database; several      *)
(* invocations of the command (processes) interleave at those steps.  Any  *)
(* statement may instead fail with OperationalError (store unreachable).   *)
(* handle() catches nothing, so an exception ends the process with a       *)
(* non-zero exit status and line 9 is not executed.                        *)
(***************************************************************************)
EXTENDS Integers, Sequences, FiniteSets

\* Number of invocations of the command that may run (concurrently or one
\* after the other) against the same store.
NumProcs == 2

Procs == 1 .. NumProcs

\* create_user.py:8 -- the literal lookup key.
Email == "test@test.com"

\* create_user.py:9 -- the literal status message.
Message == "User added"

\* self.style.SUCCESS(text): the text as it is when the command's style is
\* the no-colour one (output not a terminal, --no-color), and wrapped in the
\* SUCCESS role's escape sequence and a reset when colour is on.
Success(text, colour) ==
    IF colour THEN <<"<sgr:SUCCESS>", text, "<sgr:reset>">> ELSE <<text>>

\* self.stdout.write(msg): OutputWrapper appends its line ending.
StdoutWrite(chunks) == chunks \o <<"\n">>

\* An e-mail address other than the literal, for rows that exist beforehand.
OtherEmail == "other@example.com"

\* Usernames of rows that may exist before the command runs.  Blank is what
\* create(email=...) itself stores, so a blank-username row is one that an
\* earlier create() call without a username left behind.
PreUsernames == {"", "alice", "bob"}

PreId(u) == CASE u = "alice" -> 1 [] u = "bob" -> 2 [] OTHER -> 3

\* A row that exists before the command runs (created by the admin, a
\* sign-up view, a shell session...).
PreUser(u, e) ==
    [id |-> PreId(u), username |-> u, email |-> e, password |-> "pbkdf2",
     first_name |-> "", last_name |-> "", is_staff |-> (u = "alice"),
     is_active |-> TRUE, is_superuser |-> (u = "alice"),
     last_login |-> "never", date_joined |-> "earlier"]

\* The declared defaults of auth.User's columns other than id and email:
\* blank strings, is_active True, the other flags False, last_login NULL,
\* date_joined = timezone.now() evaluated when the instance is built.
Defaults ==
    [username |-> "", password |-> "", first_name |-> "", last_name |-> "",
     is_staff |-> FALSE, is_active |-> TRUE, is_superuser |-> FALSE,
     last_login |-> "never", date_joined |-> "now"]

Fields == {"id", "email"} \cup DOMAIN Defaults

MaxOf(S) == IF S = {} THEN 0 ELSE CHOOSE m \in S : \A x \in S : x <= m

\* The AutoField value the database assigns to the next inserted row.
NextId(s) == MaxOf({r.id : r \in s}) + 1

\* Mutant of NewUser: the row is built with a non-default flag.
NewUserStaff(s) ==
    [id |-> NextId(s), username |-> "", email |-> Email, password |-> "",
     first_name |-> "", last_name |-> "", is_staff |-> TRUE,
     is_active |-> TRUE, is_superuser |-> FALSE,
     last_login |-> "never", date_joined |-> "now"]

\* create(email="test@test.com"): User(email=...) with every other column
\* at its default, saved with a fresh id.
NewUser(s) ==
    [id |-> NextId(s), username |-> "", email |-> Email, password |-> "",
     first_name |-> "", last_name |-> "", is_staff |-> FALSE,
     is_active |-> TRUE, is_superuser |-> FALSE,
     last_login |-> "never", date_joined |-> "now"]

\* get(email="test@test.com"): the rows the SELECT matches.
Lookup(s) == {r \in s : r.email = Email}

\* The rows an INSERT of r collides with: the table's UNIQUE columns are id
\* (primary key) and username.  email is not among them.
Conflicts(s, r) == {x \in s : x.id = r.id \/ x.username = r.username}

\* Mutant of Insert: a table without the UNIQUE constraints.
InsertNoUnique(s, r) == [ok |-> TRUE, rows |-> s \cup {r}]

\* Mutant of Insert: INSERT OR REPLACE, which drops the colliding rows.
InsertOrReplace(s, r) == [ok |-> TRUE, rows |-> (s \ Conflicts(s, r)) \cup {r}]

\* The INSERT: it adds the row, or fails with IntegrityError and leaves the
\* table as it was (the statement runs inside transaction.atomic()).
Insert(s, r) ==
    IF Conflicts(s, r) = {}
    THEN [ok |-> TRUE, rows |-> s \cup {r}]
    ELSE [ok |-> FALSE, rows |-> s]

\* The stores the command may be run against: any table the schema admits
\* (unique id, unique username) over the rows above.
UsernameUnique(s) == \A x, y \in s : x.username = y.username => x = y

InitStores ==
    {s \in SUBSET {PreUser(u, e) : u \in PreUsernames, e \in {Email, OtherEmail}} :
        UsernameUnique(s)}

VARIABLES
    store,       \* the auth_user table: a set of rows
    pc,          \* per invocation: idle, get, create, reget, write, done
    returned,    \* get_or_create has returned a (record, created) pair
    created,     \* the created flag of that pair
    raised,      \* the exception get_or_create raised, or "none"
    err,         \* the exception that left handle(), or "none"
    out,         \* what the invocation wrote to stdout
    colour,      \* input: the invocation's style is the coloured one
    exit,        \* the process's exit status (-1 while it runs)
    store0,      \* history: the store before any invocation
    inserted,    \* history: the rows the invocation's INSERT added
    priorDone,   \* history: the invocations finished when this one started
    priorLive,   \* history: the invocations running when this one started
    hadAtStart,  \* history: rows with the e-mail when this one started
    lookups,     \* history: SELECTs the invocation issued
    raced        \* history: its INSERT lost to a concurrent creator

vars == <<store, pc, returned, created, raised, err, out, colour, exit, store0,
          inserted, priorDone, priorLive, hadAtStart, lookups, raced>>

hist == <<store0, inserted, priorDone, priorLive, hadAtStart, lookups, raced>>

Init ==
    /\ store \in InitStores
    /\ store0 = store
    /\ pc = [p \in Procs |-> "idle"]
    /\ returned = [p \in Procs |-> FALSE]
    /\ created = [p \in Procs |-> FALSE]
    /\ raised = [p \in Procs |-> "none"]
    /\ err = [p \in Procs |-> "none"]
    /\ out = [p \in Procs |-> <<>>]
    /\ colour = [p \in Procs |-> FALSE]
    /\ exit = [p \in Procs |-> -1]
    /\ inserted = [p \in Procs |-> {}]
    /\ priorDone = [p \in Procs |-> {}]
    /\ priorLive = [p \in Procs |-> {}]
    /\ hadAtStart = [p \in Procs |-> 0]
    /\ lookups = [p \in Procs |-> 0]
    /\ raced = [p \in Procs |-> FALSE]

\* get_or_create returns (record, c): handle() goes on to line 9.
Return(p, c) ==
    /\ pc' = [pc EXCEPT ![p] = "write"]
    /\ returned' = [returned EXCEPT ![p] = TRUE]
    /\ created' = [created EXCEPT ![p] = c]
    /\ UNCHANGED <<raised, err, out, exit>>

\* get_or_create moves on to its next statement.
Goto(p, label) ==
    /\ pc' = [pc EXCEPT ![p] = label]
    /\ UNCHANGED <<returned, created, raised, err, out, exit>>

\* Mutant of Fail: handle() wraps the call in try/except and carries on.
FailSwallow(p, e) ==
    /\ pc' = [pc EXCEPT ![p] = "done"]
    /\ raised' = [raised EXCEPT ![p] = e]
    /\ err' = [err EXCEPT ![p] = e]
    /\ out' = [out EXCEPT ![p] = StdoutWrite(Success(Message, colour[p]))]
    /\ exit' = [exit EXCEPT ![p] = 0]
    /\ UNCHANGED <<returned, created>>

\* get_or_create raises e.  handle() has no try/except: e leaves it as it
\* is, line 9 is skipped, and the process ends with a non-zero status.
Fail(p, e) ==
    /\ pc' = [pc EXCEPT ![p] = "done"]
    /\ raised' = [raised EXCEPT ![p] = e]
    /\ err' = [err EXCEPT ![p] = e]
    /\ exit' = [exit EXCEPT ![p] = 1]
    /\ UNCHANGED <<returned, created, out>>

\* Mutant of Start: the message is written before the call is made.
StartAnnounceFirst(p) ==
    /\ pc[p] = "idle"
    /\ \E c \in BOOLEAN :
          /\ colour' = [colour EXCEPT ![p] = c]
          /\ out' = [out EXCEPT ![p] = StdoutWrite(Success(Message, c))]
    /\ pc' = [pc EXCEPT ![p] = "get"]
    /\ priorDone' = [priorDone EXCEPT ![p] = {q \in Procs : pc[q] = "done"}]
    /\ priorLive' = [priorLive EXCEPT ![p] = {q \in Procs : pc[q] \notin {"idle", "done"}}]
    /\ hadAtStart' = [hadAtStart EXCEPT ![p] = Cardinality(Lookup(store))]
    /\ UNCHANGED <<store, returned, created, raised, err, exit, store0,
                   inserted, lookups, raced>>

\* The command is invoked: handle() is entered (line 7).
Start(p) ==
    /\ pc[p] = "idle"
    /\ \E c \in BOOLEAN : colour' = [colour EXCEPT ![p] = c]
    /\ pc' = [pc EXCEPT ![p] = "get"]
    /\ priorDone' = [priorDone EXCEPT ![p] = {q \in Procs : pc[q] = "done"}]
    /\ priorLive' = [priorLive EXCEPT ![p] = {q \in Procs : pc[q] \notin {"idle", "done"}}]
    /\ hadAtStart' = [hadAtStart EXCEPT ![p] = Cardinality(Lookup(store))]
    /\ UNCHANGED <<store, returned, created, raised, err, out, exit, store0,
                   inserted, lookups, raced>>

\* get_or_create's first statement: self.get(email=...).
Get(p) ==
    /\ pc[p] = "get"
    /\ lookups' = [lookups EXCEPT ![p] = @ + 1]
    /\ \E up \in BOOLEAN :
          IF ~up THEN Fail(p, "OperationalError")
          ELSE IF Cardinality(Lookup(store)) = 1 THEN Return(p, FALSE)
          ELSE IF Lookup(store) = {} THEN Goto(p, "create")
          ELSE Fail(p, "MultipleObjectsReturned")
    /\ UNCHANGED <<store, colour, store0, inserted, priorDone, priorLive,
                   hadAtStart, raced>>

\* Mutant of Create: the IntegrityError is not caught.
CreateNoRecover(p) ==
    /\ pc[p] = "create"
    /\ \E up \in BOOLEAN :
          IF ~up
          THEN Fail(p, "OperationalError") /\ UNCHANGED <<store, inserted, raced>>
          ELSE LET res == Insert(store, NewUser(store)) IN
               /\ store' = res.rows
               /\ inserted' = [inserted EXCEPT ![p] = res.rows \ store]
               /\ raced' = [raced EXCEPT ![p] = ~res.ok /\ Lookup(store) # {}]
               /\ IF res.ok THEN Return(p, TRUE) ELSE Fail(p, "IntegrityError")
    /\ UNCHANGED <<colour, store0, priorDone, priorLive, hadAtStart, lookups>>

\* The DoesNotExist handler: self.create(email=...) inside
\* transaction.atomic(); an IntegrityError is caught and leads to the
\* second self.get.
Create(p) ==
    /\ pc[p] = "create"
    /\ \E up \in BOOLEAN :
          IF ~up
          THEN Fail(p, "OperationalError") /\ UNCHANGED <<store, inserted, raced>>
          ELSE LET res == Insert(store, NewUser(store)) IN
               /\ store' = res.rows
               /\ inserted' = [inserted EXCEPT ![p] = res.rows \ store]
               /\ raced' = [raced EXCEPT ![p] = ~res.ok /\ Lookup(store) # {}]
               /\ IF res.ok THEN Return(p, TRUE) ELSE Goto(p, "reget")
    /\ UNCHANGED <<colour, store0, priorDone, priorLive, hadAtStart, lookups>>

\* The IntegrityError handler: self.get(email=...) once more; when it
\* finds nothing either, the IntegrityError is raised again.
ReGet(p) ==
    /\ pc[p] = "reget"
    /\ lookups' = [lookups EXCEPT ![p] = @ + 1]
    /\ \E up \in BOOLEAN :
          IF ~up THEN Fail(p, "OperationalError")
          ELSE IF Cardinality(Lookup(store)) = 1 THEN Return(p, FALSE)
          ELSE IF Lookup(store) = {} THEN Fail(p, "IntegrityError")
          ELSE Fail(p, "MultipleObjectsReturned")
    /\ UNCHANGED <<store, colour, store0, inserted, priorDone, priorLive,
                   hadAtStart, raced>>

\* Mutant of Write: the message reports what get_or_create returned.
WriteByOutcome(p) ==
    /\ pc[p] = "write"
    /\ out' = [out EXCEPT ![p] = StdoutWrite(Success(
                    IF created[p] THEN Message ELSE "User exists", colour[p]))]
    /\ pc' = [pc EXCEPT ![p] = "done"]
    /\ exit' = [exit EXCEPT ![p] = 0]
    /\ UNCHANGED <<store, returned, created, raised, err, colour, hist>>

\* Line 9: the returned pair is dropped and the fixed message is written;
\* handle() returns and the process ends with status 0.
Write(p) ==
    /\ pc[p] = "write"
    /\ out' = [out EXCEPT ![p] = StdoutWrite(Success(Message, colour[p]))]
    /\ pc' = [pc EXCEPT ![p] = "done"]
    /\ exit' = [exit EXCEPT ![p] = 0]
    /\ UNCHANGED <<store, returned, created, raised, err, colour, hist>>

Next ==
    \E p \in Procs :
        \/ Start(p)
        \/ Get(p)
        \/ Create(p)
        \/ ReGet(p)
        \/ Write(p)

Spec == Init /\ [][Next]_vars

----------------------------------------------------------------------------
\* Vocabulary of the properties.

AllDone == \A p \in Procs : pc[p] = "done"

\* The invocation ended without the store having been unreachable.
Reached(p) == pc[p] = "done" /\ err[p] # "OperationalError"

Succeeded(p) == pc[p] = "done" /\ err[p] = "none"

EmailUnique(s) == \A x, y \in s : x.email = y.email => x = y

Creators == {p \in Procs : returned[p] /\ created[p]}

\* q ran after p had finished, and no other invocation has run.
InSequence(p, q) ==
    /\ p # q
    /\ pc[p] = "done" /\ priorDone[p] = {} /\ priorLive[p] = {}
    /\ pc[q] = "done" /\ priorDone[q] = {p} /\ priorLive[q] = {}
    /\ \A r \in Procs \ {p, q} : pc[r] = "idle"

Plain == <<"User added", "\n">>

Coloured == <<"<sgr:SUCCESS>", "User added", "<sgr:reset>", "\n">>

----------------------------------------------------------------------------
\* C1 (as claimed): when all invocations have finished against a store that
\* held no row with the e-mail, and the store was reachable throughout, the
\* store holds exactly one row with the e-mail and exactly one invocation
\* got created = True.
C1_ExactlyOneCreated ==
    (AllDone /\ Lookup(store0) = {} /\ \A p \in Procs : Reached(p))
        => /\ Cardinality(Lookup(store)) = 1
           /\ Cardinality(Creators) = 1

\* C2 (as claimed): two invocations run one after the other against a store
\* that held no row with the e-mail leave exactly one such row; the first
\* got created = True and the second created = False.
C2_Idempotent ==
    \A p, q \in Procs :
        (InSequence(p, q) /\ Lookup(store0) = {} /\ Reached(p) /\ Reached(q))
            => /\ Cardinality(Lookup(store)) = 1
               /\ returned[p] /\ created[p]
               /\ returned[q] /\ ~created[q]

\* C3: from a store with at most one row per e-mail, every reachable store
\* has at most one row per e-mail.
C3_EmailUniquePreserved == EmailUnique(store0) => EmailUnique(store)

\* C3 witness: from such a store two invocations raced; one created the row
\* and the other's INSERT was refused and it returned the existing row.
C3_Witness ==
    /\ EmailUnique(store0)
    /\ \E p, q \in Procs :
          /\ p # q /\ p \in Creators
          /\ raced[q] /\ returned[q] /\ ~created[q]

\* C4 (as claimed): an invocation started on a store that holds a row with
\* the e-mail, and that reached the store, returns created = False and has
\* inserted nothing, and every earlier row is still there.
C4_FoundLeavesStore ==
    \A p \in Procs :
        (hadAtStart[p] >= 1 /\ Reached(p))
            => /\ returned[p] /\ ~created[p]
               /\ inserted[p] = {}
               /\ store0 \subseteq store

\* C5: an invocation whose INSERT was refused because a concurrent
\* invocation created the row after its lookup never ends with the
\* IntegrityError: it looks the row up once more and, the store answering,
\* returns created = False, writes the message and exits with 0.
C5_RaceRecovered ==
    \A p \in Procs :
        raced[p] =>
            /\ raised[p] # "IntegrityError" /\ err[p] # "IntegrityError"
            /\ inserted[p] = {}
            /\ lookups[p] <= 2
            /\ Reached(p) =>
                  /\ returned[p] /\ ~created[p]
                  /\ err[p] = "none" /\ exit[p] = 0
                  /\ lookups[p] = 2
                  /\ out[p] \in {Plain, Coloured}

\* C5 witness: an invocation lost the race and finished successfully.
C5_Witness ==
    \E p \in Procs : raced[p] /\ Succeeded(p) /\ lookups[p] = 2

\* C6: an invocation that found the store unreachable is finished with that
\* error (no further statement is issued), has inserted nothing, has written
\* nothing and has a non-zero exit status; when every invocation ended so,
\* the store is as it was.
C6_StoreUnavailable ==
    /\ \A p \in Procs :
          raised[p] = "OperationalError" =>
              /\ pc[p] = "done" /\ err[p] = "OperationalError"
              /\ ~returned[p]
              /\ inserted[p] = {}
              /\ out[p] = <<>>
              /\ exit[p] \notin {0, -1}
    /\ (\A p \in Procs : raised[p] = "OperationalError") => store = store0

\* C6 witness: the store was unreachable at the first statement.
C6_Witness ==
    \E p \in Procs :
        /\ err[p] = "OperationalError" /\ lookups[p] = 1 /\ pc[p] = "done"
        /\ store = store0

\* C7: the message is on stdout only once get_or_create has returned; a
\* finished process has status 0 exactly when it returned and the message
\* was written; an exception raised by get_or_create is the one that leaves
\* handle(), with nothing written and a non-zero status.
C7_MessageAfterSuccess ==
    \A p \in Procs :
        /\ out[p] # <<>> =>
              returned[p] /\ err[p] = "none" /\ out[p] \in {Plain, Coloured}
        /\ pc[p] # "done" => exit[p] = -1
        /\ pc[p] = "done" =>
              /\ exit[p] \in {0, 1}
              /\ exit[p] = 0 <=> (returned[p] /\ err[p] = "none")
              /\ exit[p] = 0 <=> out[p] # <<>>
        /\ err[p] = raised[p]
        /\ raised[p] # "none" => pc[p] = "done" /\ out[p] = <<>> /\ exit[p] = 1

\* C7 witness: one invocation succeeded and wrote the message; another,
\* whose INSERT was refused, failed at its second lookup.
C7_Witness ==
    \E p, q \in Procs :
        /\ Succeeded(p) /\ out[p] = Plain /\ exit[p] = 0
        /\ raised[q] # "none" /\ lookups[q] = 2 /\ exit[q] = 1 /\ out[q] = <<>>

\* C8: every row that was in the store is still there unchanged; the store
\* is the original rows plus what the invocations inserted; an invocation
\* inserts at most one row, a complete one, exactly when it returns
\* created = True, and none when it fails.
C8_InsertOnlyAllOrNothing ==
    /\ store0 \subseteq store
    /\ store = store0 \cup UNION {inserted[p] : p \in Procs}
    /\ \A p \in Procs :
          /\ Cardinality(inserted[p]) <= 1
          /\ inserted[p] # {} <=> (returned[p] /\ created[p])
          /\ err[p] # "none" => inserted[p] = {}
          /\ \A r \in inserted[p] : DOMAIN r = Fields /\ r \notin store0

\* C8 witness: beside earlier rows, one invocation inserted and another
\* failed after its INSERT was refused.
C8_Witness ==
    /\ store0 # {}
    /\ \E p, q \in Procs :
          /\ inserted[p] # {} /\ pc[p] = "done"
          /\ err[q] # "none" /\ lookups[q] = 2

\* C9: the row of an invocation that returned created = True is in the
\* store with the requested e-mail and every other column at its default.
C9_CreatedRowHasDefaults ==
    \A p \in Creators :
        \E r \in store :
            /\ inserted[p] = {r}
            /\ r.email = Email /\ Email = "test@test.com"
            /\ \A f \in DOMAIN Defaults : r[f] = Defaults[f]
            /\ \A x \in store : x.id = r.id => x = r

\* C9 witness: an invocation created the row beside earlier rows.
C9_Witness == \E p \in Creators : pc[p] = "done" /\ store0 # {}

\* C10: two successful runs with the same style write the same chunks,
\* carrying "User added", and exit with the same status, whatever created
\* flag each got.
C10_OutputIgnoresCreated ==
    \A p, q \in Procs :
        (Succeeded(p) /\ Succeeded(q) /\ colour[p] = colour[q])
            => /\ out[p] = out[q]
               /\ exit[p] = exit[q]
               /\ \E i \in 1 .. Len(out[p]) : out[p][i] = "User added"

\* C10 witness: two successful runs with the same style, one that created
\* the row and one that found it.
C10_Witness ==
    \E p, q \in Procs :
        /\ Succeeded(p) /\ Succeeded(q) /\ colour[p] = colour[q]
        /\ created[p] /\ ~created[q]

====
